---- MODULE Spec2Model ----
(***************************************************************************)
(* Cache-and-batch orchestration of distance-matrix requests:              *)
(*   src/src/google_maps_funcs.py   get_distance_matrix (file cache),      *)
(*                                  get_distance_matrix_batched,           *)
(*                                  get_coordinates                        *)
(*   src/src/compute_distances.py   get_distance_matrix (no cache)         *)
(* The program is sequential.  One call is in flight at a time; the        *)
(* environment (the .env credential) changes only between calls.           *)
(* List indices i, j, k are the code's 0-based values; a TLA+ sequence s   *)
(* holds the code's s[i] at s[i + 1].                                      *)
(***************************************************************************)
EXTENDS Integers, Sequences, FiniteSets, TLC

\* ------------------------------------------------------------------ bounds
MaxLen == 3
MaxBatch == 2
MaxCalls == 2

\* ------------------------------------------------------------ input space
Modes == {"driving", "walking"}
NonOkStatuses == {"ZERO_RESULTS", "NOT_FOUND"}

\* Origin and destination lists are prefixes of these samples: pairwise
\* distinct locations, and a list in which locations repeat.
DistinctSample == <<"A", "B", "C", "D", "E">>
OriginSamples == {DistinctSample, <<"A", "B", "A", "B", "A">>}
DestinationSamples == {DistinctSample, <<"B", "A", "C", "C", "A">>}

Prefixes(samples) == {SubSeq(s, 1, l) : s \in samples, l \in 0..MaxLen}

Range(s) == {s[x] : x \in DOMAIN s}

Min(a, b) == IF a < b THEN a ELSE b

\* A Python dict: a function; d[key] = value inserts or overwrites.
EmptyDict == <<>>
DictSet(d, key, value) == (key :> value) @@ d

\* ------------------------------------------------------- cache key, path
\* Mutant of JsonDumpsSorted: the key data holds the two lists and no mode.
JsonDumpsLists(origins, destinations, mode) ==
  << <<"destinations", destinations>>, <<"origins", origins>> >>

\* json.dumps(..., sort_keys=True): the fields in the order of their names,
\* each list in the order given.
JsonDumpsSorted(origins, destinations, mode) ==
  << <<"destinations", destinations>>, <<"mode", mode>>, <<"origins", origins>> >>

\* hashlib.sha256(...).hexdigest(): taken to be collision-free.
Sha256Hex(data) == <<"sha256", data>>

matrix_cache_key(origins, destinations, mode) ==
  Sha256Hex(JsonDumpsSorted(origins, destinations, mode))

matrix_cache_path(origins, destinations, mode) ==
  <<"matrix_", matrix_cache_key(origins, destinations, mode), ".json">>

\* json.dump / json.load of a cache file.
JsonDump(value) == [json |-> value]
JsonLoad(file) == file.json

\* json.load(f) parses the file: a file that holds no JSON text raises
\* json.JSONDecodeError.
Decodable(file) == "json" \in DOMAIN file

\* Cache files as a crash or a foreign writer can leave them: the text cut
\* off in the middle of a write, which is no JSON, and the JSON object {}.
TruncatedFile == [text |-> "{rows: [{elements: ["]
EmptyObjectFile == JsonDump(EmptyDict)
CorruptFiles == {TruncatedFile, EmptyObjectFile}

\* --------------------------------------------------- the external service
NoFault == [o |-> "", d |-> "", status |-> "OK"]
SampleFault == [o |-> "A", d |-> "B", status |-> "ZERO_RESULTS"]

\* The address the service resolves a location to.
ResolvedAddress(location) == location \o ", Norway"

\* One element of the response: it depends on (origin, destination, mode)
\* only; the pair named by fault has status fault.status in every mode.
ServiceElement(fault, o, d, mode) ==
  IF fault.status # "OK" /\ fault.o = o /\ fault.d = d
    THEN [status |-> fault.status]
    ELSE [status |-> "OK",
          distance |-> [text |-> <<"km", o, d, mode>>],
          duration |-> [text |-> <<"mins", o, d, mode>>]]

\* gmaps.distance_matrix(origins, destinations, mode=mode), when it answers.
distance_matrix(fault, origins, destinations, mode) ==
  [origin_addresses |-> [x \in DOMAIN origins |-> ResolvedAddress(origins[x])],
   destination_addresses |->
     [y \in DOMAIN destinations |-> ResolvedAddress(destinations[y])],
   rows |-> [x \in DOMAIN origins |->
              [elements |-> [y \in DOMAIN destinations |->
                 ServiceElement(fault, origins[x], destinations[y], mode)]]]]

\* ------------------------------------- response -> DistanceMatrix (dict)
\* Mutant of MatrixElement: every failure is reported as ZERO_RESULTS.
MatrixElementOneStatus(element) ==
  IF element.status = "OK"
    THEN [distance |-> element.distance.text, duration |-> element.duration.text]
    ELSE [error |-> "ZERO_RESULTS"]

\* google_maps_funcs.py 56-62, compute_distances.py 30-36
MatrixElement(element) ==
  IF element.status = "OK"
    THEN [distance |-> element.distance.text, duration |-> element.duration.text]
    ELSE [error |-> element.status]

\* for j, destination in enumerate(destinations): row[destination] = ...
RECURSIVE TransformRow(_, _, _, _)
TransformRow(row, destinations, elements, j) ==
  IF j >= Len(destinations) THEN row
  ELSE TransformRow(DictSet(row, destinations[j + 1], MatrixElement(elements[j + 1])),
                    destinations, elements, j + 1)

\* for i, origin in enumerate(origins): result[origin] = {}; <inner loop>
RECURSIVE TransformRows(_, _, _, _, _)
TransformRows(result, origins, destinations, rows, i) ==
  IF i >= Len(origins) THEN result
  ELSE TransformRows(
         DictSet(result, origins[i + 1],
                 TransformRow(EmptyDict, destinations, rows[i + 1].elements, 0)),
         origins, destinations, rows, i + 1)

\* Lines 51-62 subscript matrix_response["rows"][i]["elements"][j], its
\* "status" and, with status OK, ["distance"]["text"] and ["duration"]["text"],
\* for every origin i and destination j: each of them must be there, or the
\* subscript raises (KeyError for a missing key).  Without an origin or
\* without a destination nothing is subscripted.
Subscriptable(origins, destinations, matrix_response) ==
  \A x \in DOMAIN origins, y \in DOMAIN destinations :
    /\ "rows" \in DOMAIN matrix_response
    /\ x \in DOMAIN matrix_response.rows
    /\ "elements" \in DOMAIN matrix_response.rows[x]
    /\ y \in DOMAIN matrix_response.rows[x].elements
    /\ LET element == matrix_response.rows[x].elements[y]
       IN  /\ "status" \in DOMAIN element
           /\ element.status = "OK" =>
                /\ "distance" \in DOMAIN element /\ "text" \in DOMAIN element.distance
                /\ "duration" \in DOMAIN element /\ "text" \in DOMAIN element.duration

\* Mutant of Transform: an origin gets its key with its first destination
\* only, so that without destinations the result is empty.
TransformLazy(origins, destinations, matrix_response) ==
  IF destinations = <<>> THEN EmptyDict
  ELSE TransformRows(EmptyDict, origins, destinations, matrix_response.rows, 0)

\* google_maps_funcs.py 51-64: keyed by the input strings.
Transform(origins, destinations, matrix_response) ==
  TransformRows(EmptyDict, origins, destinations, matrix_response.rows, 0)

\* compute_distances.py 25-37: keyed by the service's resolved addresses.
TransformResolved(matrix) ==
  TransformRows(EmptyDict, matrix.origin_addresses, matrix.destination_addresses,
                matrix.rows, 0)

\* ------------------------------------------------------------- I/O events
Event(ev, origins, destinations, mode) ==
  [ev |-> ev, origins |-> origins, destinations |-> destinations, mode |-> mode]

\* Mutant of CacheWrite: the cache keeps the entry written last and no other.
CacheWriteEvict(c, path, matrix_response) == path :> JsonDump(matrix_response)

\* Mutant of CacheWrite: only the rows of the response are written.
CacheWriteRows(c, path, matrix_response) == DictSet(c, path, JsonDump(matrix_response.rows))

\* Mutant of CacheWrite: the response is never written.
CacheWriteNothing(c, path, matrix_response) == c

\* with open(cache_path, "w") as f: json.dump(matrix_response, f)
CacheWrite(c, path, matrix_response) == DictSet(c, path, JsonDump(matrix_response))

\* Mutant of CredentialMissing: the credential is never checked.
CredentialNeverMissing(api_key) == FALSE

\* if not api_key: raise ValueError
CredentialMissing(api_key) == ~api_key

\* Mutant of CacheExists: a corrupted entry counts as no entry, so that the
\* request is fetched again and the entry overwritten.
CacheExistsIntact(c, path) == path \in DOMAIN c /\ c[path] \notin CorruptFiles

\* Mutant of CacheExists: the cache is never consulted.
CacheExistsNever(c, path) == FALSE

\* os.path.exists(cache_path)
CacheExists(c, path) == path \in DOMAIN c

\* Mutant of get_distance_matrix: the credential is checked first, as in
\* compute_distances.py, before the cache is looked up.
get_distance_matrix_key_first(fault, c, api_key, svc_ok, origins, destinations, mode) ==
  LET cache_path == matrix_cache_path(origins, destinations, mode)
      E(ev) == Event(ev, origins, destinations, mode)
      matrix_response == distance_matrix(fault, origins, destinations, mode)
  IN  IF ~api_key
        THEN [outcome |-> "ValueError", value |-> EmptyDict, cache |-> c,
              events |-> <<E("getenv")>>]
      ELSE IF cache_path \in DOMAIN c
        THEN [outcome |-> "return",
              value |-> Transform(origins, destinations, JsonLoad(c[cache_path])),
              cache |-> c,
              events |-> <<E("getenv"), E("exists"), E("read")>>]
      ELSE IF ~svc_ok
        THEN [outcome |-> "ServiceCallError", value |-> EmptyDict, cache |-> c,
              events |-> <<E("getenv"), E("exists"), E("distance_matrix")>>]
      ELSE [outcome |-> "return",
            value |-> Transform(origins, destinations, matrix_response),
            cache |-> DictSet(c, cache_path, JsonDump(matrix_response)),
            events |-> <<E("getenv"), E("exists"), E("distance_matrix"), E("write")>>]

\* google_maps_funcs.get_distance_matrix: one whole call on cache c with
\* the credential api_key; svc_ok says whether the service call, if one is
\* made, answers (TRUE) or raises (FALSE).  Gives the outcome, the value
\* returned, the cache afterwards and the I/O events in the order performed.
\* A cache file that json.load rejects raises there (line 40); one whose JSON
\* lacks what lines 55-62 subscript raises in the transform.
get_distance_matrix(fault, c, api_key, svc_ok, origins, destinations, mode) ==
  LET cache_path == matrix_cache_path(origins, destinations, mode)
      E(ev) == Event(ev, origins, destinations, mode)
      matrix_response == distance_matrix(fault, origins, destinations, mode)
  IN  IF CacheExists(c, cache_path)
        THEN IF ~Decodable(c[cache_path])
               THEN [outcome |-> "JSONDecodeError", value |-> EmptyDict, cache |-> c,
                     events |-> <<E("exists"), E("read")>>]
             ELSE IF ~Subscriptable(origins, destinations, JsonLoad(c[cache_path]))
               THEN [outcome |-> "KeyError", value |-> EmptyDict, cache |-> c,
                     events |-> <<E("exists"), E("read")>>]
             ELSE [outcome |-> "return",
                   value |-> Transform(origins, destinations, JsonLoad(c[cache_path])),
                   cache |-> c,
                   events |-> <<E("exists"), E("read")>>]
      ELSE IF CredentialMissing(api_key)
        THEN [outcome |-> "ValueError", value |-> EmptyDict, cache |-> c,
              events |-> <<E("exists"), E("getenv")>>]
      ELSE IF ~svc_ok
        THEN [outcome |-> "ServiceCallError", value |-> EmptyDict, cache |-> c,
              events |-> <<E("exists"), E("getenv"), E("distance_matrix")>>]
      ELSE [outcome |-> "return",
            value |-> Transform(origins, destinations, matrix_response),
            cache |-> CacheWrite(c, cache_path, matrix_response),
            events |-> <<E("exists"), E("getenv"), E("distance_matrix"), E("write")>>]

\* compute_distances.get_distance_matrix: no cache.
compute_get_distance_matrix(fault, api_key, svc_ok, origins, destinations, mode) ==
  LET E(ev) == Event(ev, origins, destinations, mode)
  IN  IF CredentialMissing(api_key)
        THEN [outcome |-> "ValueError", value |-> EmptyDict, events |-> <<E("getenv")>>]
      ELSE IF ~svc_ok
        THEN [outcome |-> "ServiceCallError", value |-> EmptyDict,
              events |-> <<E("getenv"), E("distance_matrix")>>]
      ELSE [outcome |-> "return",
            value |-> TransformResolved(distance_matrix(fault, origins, destinations, mode)),
            events |-> <<E("getenv"), E("distance_matrix")>>]

\* The geocoding service: no result for a location the service cannot find.
geocode(fault, location) ==
  IF fault.status = "NOT_FOUND" /\ location \in {fault.o, fault.d}
    THEN <<>>
    ELSE <<[geometry |-> [location |-> [lat |-> <<"lat", location>>,
                                         lng |-> <<"lng", location>>]]]>>

\* google_maps_funcs.py 160-166
RECURSIVE CoordinatesLoop(_, _, _, _)
CoordinatesLoop(fault, result, locations, x) ==
  IF x >= Len(locations) THEN result
  ELSE LET location == locations[x + 1]
           geocode_result == geocode(fault, location)
       IN  CoordinatesLoop(fault,
             DictSet(result, location,
               IF geocode_result # <<>>
                 THEN [lat |-> geocode_result[1].geometry.location.lat,
                       lng |-> geocode_result[1].geometry.location.lng]
                 ELSE [error |-> "Not found"]),
             locations, x + 1)

\* get_coordinates: one whole call; the geocode call of locations[fail_at - 1]
\* raises, or every geocode call answers (fail_at = 0).
get_coordinates(fault, api_key, fail_at, locations) ==
  LET G(x) == Event("geocode", <<locations[x]>>, <<>>, "")
      getenv == Event("getenv", locations, <<>>, "")
  IN  IF CredentialMissing(api_key)
        THEN [outcome |-> "ValueError", value |-> EmptyDict, events |-> <<getenv>>]
      ELSE IF fail_at > 0
        THEN [outcome |-> "ServiceCallError", value |-> EmptyDict,
              events |-> <<getenv>> \o [x \in 1..fail_at |-> G(x)]]
      ELSE [outcome |-> "return",
            value |-> CoordinatesLoop(fault, EmptyDict, locations, 0),
            events |-> <<getenv>> \o [x \in DOMAIN locations |-> G(x)]]

\* ------------------------------------------- get_distance_matrix_batched
\* Mutant of dest_indices: range(m - 1, i, -1), the destinations from the last
\* down to i + 1.
dest_indices_desc(i_, m) == [x \in 1..(m - (i_ + 1)) |-> m - x]

\* Mutant of dest_indices: range(m), every destination for every origin.
dest_indices_all(i_, m) == [x \in 1..m |-> x - 1]

\* Mutant of dest_indices: range(i, m), the diagonal included.
dest_indices_from_i(i_, m) == [x \in 1..(m - i_) |-> i_ + x - 1]

\* dest_indices = [j for j in range(i + 1, m)]
dest_indices(i_, m) == [x \in 1..(m - (i_ + 1)) |-> i_ + x]

\* Mutant of Slice: s[k_ : k_ + b + 1], one element too many.
SliceOneMore(s, k_, b) == SubSeq(s, k_ + 1, Min(k_ + b + 1, Len(s)))

\* A Python slice s[k_ : k_ + b]
Slice(s, k_, b) == SubSeq(s, k_ + 1, Min(k_ + b, Len(s)))

\* batch_destinations = [destinations[j] for j in batch_dest_indices]
BatchDestinations(dests, batch_dest_indices) ==
  [x \in DOMAIN batch_dest_indices |-> dests[batch_dest_indices[x] + 1]]

\* Mutant of Fold: a destination the origin already has keeps its element.
FoldKeepOld(result_, batch_result) ==
  LET origin_addr == CHOOSE o \in DOMAIN batch_result : TRUE
      base == IF origin_addr \notin DOMAIN result_
                THEN DictSet(result_, origin_addr, EmptyDict)
                ELSE result_
  IN  DictSet(base, origin_addr, base[origin_addr] @@ batch_result[origin_addr])

\* Mutant of Fold: the origin's inner mapping is replaced, not extended.
FoldReplace(result_, batch_result) ==
  LET origin_addr == CHOOSE o \in DOMAIN batch_result : TRUE
  IN  DictSet(result_, origin_addr, batch_result[origin_addr])

\* Lines 96-100: fold one sub-request's single-origin result into result.
Fold(result_, batch_result) ==
  LET origin_addr == CHOOSE o \in DOMAIN batch_result : TRUE
      base == IF origin_addr \notin DOMAIN result_
                THEN DictSet(result_, origin_addr, EmptyDict)
                ELSE result_
  IN  DictSet(base, origin_addr, batch_result[origin_addr] @@ base[origin_addr])

\* ------------------------------------------------------------------ state
VARIABLES
  api_key,        \* GOOGLE_MAPS_API_KEY is set in the environment
  cache,          \* the files of .cache/: path -> content
  fault,          \* the service's one non-OK pair, or NoFault
  origins,        \* the request's lists and batch size
  destinations,
  batch_size,
  pc,             \* "idle", or the place of the call in flight
  call,           \* the call in flight or last made: [op, mode, api_key]
  i, k, result,   \* locals of get_distance_matrix_batched
  plan,           \* the sub-requests of the batched call, in order: each
                  \* [i, js (batch_dest_indices), cached (its cache file
                  \* existed when it was reached), events (its I/O events)]
  log,            \* I/O events of the call, in order
  ret,            \* how the last call ended: [outcome, value]
  cache0,         \* the cache when the call started
  prev,           \* the call before: [call, ret, log, plan, cache0]
  calls_left      \* calls the run may still make

vars == <<api_key, cache, fault, origins, destinations, batch_size, pc, call,
          i, k, result, plan, log, ret, cache0, prev, calls_left>>

NoCall == [op |-> "none", mode |-> "", api_key |-> FALSE]
NoRet == [outcome |-> "none", value |-> EmptyDict]

Faults(os, ds) ==
  {NoFault} \cup {[o |-> o, d |-> d, status |-> s] :
                    o \in Range(os), d \in Range(ds), s \in NonOkStatuses}

\* The state when the process starts, before any call, over an empty .cache/.
Start ==
  /\ api_key \in BOOLEAN
  /\ cache = EmptyDict
  /\ batch_size \in 1..MaxBatch
  /\ pc = "idle"
  /\ call = NoCall
  /\ i = 0 /\ k = 0 /\ result = EmptyDict
  /\ plan = <<>>
  /\ log = <<>>
  /\ ret = NoRet
  /\ cache0 = EmptyDict
  /\ prev = [call |-> NoCall, ret |-> NoRet, log |-> <<>>, plan |-> <<>>,
             cache0 |-> EmptyDict]

\* Runs of up to MaxCalls calls on one request: the locations pairwise
\* distinct, origins and destinations prefixes of the same list.
Init ==
  /\ Start
  /\ origins \in Prefixes({DistinctSample})
  /\ destinations \in Prefixes({DistinctSample})
  /\ fault \in {NoFault, SampleFault}
  /\ calls_left = MaxCalls

\* One call on each request of the input space, with each fault of the service.
InitOne ==
  /\ Start
  /\ origins \in Prefixes(OriginSamples)
  /\ destinations \in Prefixes(DestinationSamples)
  /\ fault \in Faults(origins, destinations)
  /\ calls_left = 1

\* A call starts: the call before becomes prev.
Begin(op, mode) ==
  /\ pc = "idle"
  /\ calls_left > 0
  /\ calls_left' = calls_left - 1
  /\ call' = [op |-> op, mode |-> mode, api_key |-> api_key]
  /\ prev' = [call |-> call, ret |-> ret, log |-> log, plan |-> plan,
              cache0 |-> cache0]
  /\ cache0' = cache
  /\ UNCHANGED <<api_key, fault, origins, destinations, batch_size>>

\* google_maps_funcs.get_distance_matrix(origins, destinations, mode)
CallUnbatched ==
  \E mode \in Modes, svc_ok \in BOOLEAN :
    LET r == get_distance_matrix(fault, cache, api_key, svc_ok,
                                 origins, destinations, mode)
    IN  /\ Begin("unbatched", mode)
        /\ cache' = r.cache
        /\ log' = r.events
        /\ ret' = [outcome |-> r.outcome, value |-> r.value]
        /\ plan' = <<>>
        /\ UNCHANGED <<pc, i, k, result>>

\* compute_distances.get_distance_matrix(origins, destinations, mode)
CallCompute ==
  \E mode \in Modes, svc_ok \in BOOLEAN :
    LET r == compute_get_distance_matrix(fault, api_key, svc_ok,
                                         origins, destinations, mode)
    IN  /\ Begin("compute", mode)
        /\ log' = r.events
        /\ ret' = [outcome |-> r.outcome, value |-> r.value]
        /\ plan' = <<>>
        /\ UNCHANGED <<cache, pc, i, k, result>>

\* get_coordinates(origins)
CallCoordinates ==
  \E fail_at \in 0..Len(origins) :
    LET r == get_coordinates(fault, api_key, fail_at, origins)
    IN  /\ Begin("coordinates", "")
        /\ log' = r.events
        /\ ret' = [outcome |-> r.outcome, value |-> r.value]
        /\ plan' = <<>>
        /\ UNCHANGED <<cache, pc, i, k, result>>

\* get_distance_matrix_batched(origins, destinations, mode, batch_size):
\* lines 80-82, up to the head of the loop over i.
CallBatched ==
  \E mode \in Modes :
    /\ Begin("batched", mode)
    /\ pc' = "for_i"
    /\ i' = 0
    /\ k' = 0
    /\ result' = EmptyDict
    /\ plan' = <<>>
    /\ log' = <<>>
    /\ ret' = NoRet
    /\ UNCHANGED cache

\* Lines 83-87 and 101: the head of "for i in range(n)"; the loop ends and
\* the function returns result, or origin i has no destination and is
\* skipped, or the loop over its chunks starts.
BatchedForI ==
  /\ pc = "for_i"
  /\ IF i >= Len(origins)
       THEN /\ pc' = "idle"
            /\ ret' = [outcome |-> "return", value |-> result]
            /\ i' = 0 /\ k' = 0 /\ result' = EmptyDict
       ELSE IF dest_indices(i, Len(destinations)) = <<>>
         THEN /\ i' = i + 1
              /\ UNCHANGED <<pc, ret, k, result>>
         ELSE /\ pc' = "for_k"
              /\ k' = 0
              /\ UNCHANGED <<ret, i, result>>
  /\ UNCHANGED <<api_key, cache, fault, origins, destinations, batch_size, call,
                 plan, log, cache0, prev, calls_left>>

\* Mutant of BatchedForK: range(0, len(dest_indices)), the step batch_size left
\* out, so that the next chunk starts one destination further.
BatchedForKStepOne ==
  /\ pc = "for_k"
  /\ IF k >= Len(dest_indices(i, Len(destinations)))
       THEN /\ pc' = "for_i"
            /\ i' = i + 1
            /\ k' = 0
            /\ UNCHANGED <<cache, plan, log, ret, result>>
       ELSE \E svc_ok \in BOOLEAN :
              LET batch_dest_indices ==
                    Slice(dest_indices(i, Len(destinations)), k, batch_size)
                  batch_destinations == BatchDestinations(destinations, batch_dest_indices)
                  batch_origins == <<origins[i + 1]>>
                  r == get_distance_matrix(fault, cache, api_key, svc_ok,
                                           batch_origins, batch_destinations, call.mode)
              IN  /\ cache' = r.cache
                  /\ log' = log \o r.events
                  /\ plan' = Append(plan,
                       [i |-> i, js |-> batch_dest_indices,
                        cached |-> matrix_cache_path(batch_origins, batch_destinations,
                                                     call.mode) \in DOMAIN cache,
                        events |-> r.events])
                  /\ IF r.outcome = "return"
                       THEN /\ result' = Fold(result, r.value)
                            /\ k' = k + 1
                            /\ UNCHANGED <<pc, ret, i>>
                       ELSE /\ pc' = "idle"
                            /\ ret' = [outcome |-> r.outcome, value |-> EmptyDict]
                            /\ i' = 0 /\ k' = 0 /\ result' = EmptyDict
  /\ UNCHANGED <<api_key, fault, origins, destinations, batch_size, call,
                 cache0, prev, calls_left>>

\* Mutant of BatchedForK: an exception of a sub-request is swallowed and the
\* loop goes on with the next chunk.
BatchedForKSwallow ==
  /\ pc = "for_k"
  /\ IF k >= Len(dest_indices(i, Len(destinations)))
       THEN /\ pc' = "for_i"
            /\ i' = i + 1
            /\ k' = 0
            /\ UNCHANGED <<cache, plan, log, ret, result>>
       ELSE \E svc_ok \in BOOLEAN :
              LET batch_dest_indices ==
                    Slice(dest_indices(i, Len(destinations)), k, batch_size)
                  batch_destinations == BatchDestinations(destinations, batch_dest_indices)
                  batch_origins == <<origins[i + 1]>>
                  r == get_distance_matrix(fault, cache, api_key, svc_ok,
                                           batch_origins, batch_destinations, call.mode)
              IN  /\ cache' = r.cache
                  /\ log' = log \o r.events
                  /\ plan' = Append(plan,
                       [i |-> i, js |-> batch_dest_indices,
                        cached |-> matrix_cache_path(batch_origins, batch_destinations,
                                                     call.mode) \in DOMAIN cache,
                        events |-> r.events])
                  /\ result' = IF r.outcome = "return" THEN Fold(result, r.value)
                                ELSE result
                  /\ k' = k + batch_size
                  /\ UNCHANGED <<pc, ret, i>>
  /\ UNCHANGED <<api_key, fault, origins, destinations, batch_size, call,
                 cache0, prev, calls_left>>

\* Lines 91-100: the head of "for k in range(0, len(dest_indices), batch_size)";
\* the loop ends, or one sub-request is run through get_distance_matrix and
\* its result folded into result; an exception of the sub-request ends the
\* batched call.
BatchedForK ==
  /\ pc = "for_k"
  /\ IF k >= Len(dest_indices(i, Len(destinations)))
       THEN /\ pc' = "for_i"
            /\ i' = i + 1
            /\ k' = 0
            /\ UNCHANGED <<cache, plan, log, ret, result>>
       ELSE \E svc_ok \in BOOLEAN :
              LET batch_dest_indices ==
                    Slice(dest_indices(i, Len(destinations)), k, batch_size)
                  batch_destinations == BatchDestinations(destinations, batch_dest_indices)
                  batch_origins == <<origins[i + 1]>>
                  r == get_distance_matrix(fault, cache, api_key, svc_ok,
                                           batch_origins, batch_destinations, call.mode)
              IN  /\ cache' = r.cache
                  /\ log' = log \o r.events
                  /\ plan' = Append(plan,
                       [i |-> i, js |-> batch_dest_indices,
                        cached |-> matrix_cache_path(batch_origins, batch_destinations,
                                                     call.mode) \in DOMAIN cache,
                        events |-> r.events])
                  /\ IF r.outcome = "return"
                       THEN /\ result' = Fold(result, r.value)
                            /\ k' = k + batch_size
                            /\ UNCHANGED <<pc, ret, i>>
                       ELSE /\ pc' = "idle"
                            /\ ret' = [outcome |-> r.outcome, value |-> EmptyDict]
                            /\ i' = 0 /\ k' = 0 /\ result' = EmptyDict
  /\ UNCHANGED <<api_key, fault, origins, destinations, batch_size, call,
                 cache0, prev, calls_left>>

\* The .env file or the process environment is edited between two calls.
EnvChange ==
  /\ pc = "idle"
  /\ calls_left > 0
  /\ api_key' = ~api_key
  /\ UNCHANGED <<cache, fault, origins, destinations, batch_size, pc, call,
                 i, k, result, plan, log, ret, cache0, prev, calls_left>>

Next ==
  \/ CallUnbatched
  \/ CallCompute
  \/ CallCoordinates
  \/ CallBatched
  \/ BatchedForI
  \/ BatchedForK
  \/ EnvChange

Spec == Init /\ [][Next]_vars

SpecOne == InitOne /\ [][Next]_vars

\* Between two calls a cache file is damaged: .cache/ is a directory of plain
\* files that a crash during json.dump (line 50) or another program can leave
\* in any state.
CorruptEntry ==
  /\ pc = "idle"
  /\ calls_left > 0
  /\ \E path \in DOMAIN cache, file \in CorruptFiles :
       /\ Decodable(cache[path]) /\ cache[path] # file
       /\ cache' = DictSet(cache, path, file)
  /\ UNCHANGED <<api_key, fault, origins, destinations, batch_size, pc, call,
                 i, k, result, plan, log, ret, cache0, prev, calls_left>>

NextCorrupt == Next \/ CorruptEntry

InitCorrupt ==
  /\ Start
  /\ origins \in Prefixes({DistinctSample})
  /\ destinations \in Prefixes({DistinctSample})
  /\ fault = NoFault
  /\ calls_left = 2

\* Two calls on a cache directory whose files can be damaged between them:
\* the first can write entries, the second finds them damaged.
SpecCorrupt == InitCorrupt /\ [][NextCorrupt]_vars

\* The interpreter runs the loops of a call to their end: a call in flight
\* takes its next step.
SpecOneFair ==
  InitOne /\ [][Next]_vars /\ WF_vars(BatchedForI) /\ WF_vars(BatchedForK)

\* ------------------------------------------------------------ observations
n == Len(origins)
m == Len(destinations)

\* A call has ended (returned or raised) and none is in flight.
Ended == pc = "idle" /\ call.op # "none"
Returned(op) == Ended /\ call.op = op /\ ret.outcome = "return"

\* The external service calls among the events l.
ServiceCalls(l) ==
  Cardinality({x \in DOMAIN l : l[x].ev \in {"distance_matrix", "geocode"}})

RequestPath(mode) == matrix_cache_path(origins, destinations, mode)

\* How often the pair (i_, j) occurs among the sub-requests p.
PairCount(p, i_, j) ==
  Cardinality(UNION {{<<x, y>> : y \in {y \in DOMAIN p[x].js : p[x].js[y] = j}} :
                       x \in {x \in DOMAIN p : p[x].i = i_}})

\* The destination indices of origin i_'s sub-requests among p[x..], in order.
RECURSIVE ConcatJs(_, _, _)
ConcatJs(p, i_, x) ==
  IF x > Len(p) THEN <<>>
  ELSE (IF p[x].i = i_ THEN p[x].js ELSE <<>>) \o ConcatJs(p, i_, x + 1)

\* lo, lo + 1, ..., hi
Ascending(lo, hi) == [x \in 1..(hi - lo + 1) |-> lo + x - 1]

\* ------------------------------------------------------------------ claims
\* C1. Cache idempotence of the unbatched path: of two consecutive
\* get_distance_matrix calls with the same (origins, destinations, mode), the
\* first starting without a cache entry for the request, with the credential,
\* and answered by the service, the second returns too, the two calls issue
\* exactly one service call in total, and the second returns the matrix the
\* first returned.
C1_CacheIdempotence ==
  ( /\ Ended
    /\ call.op = "unbatched" /\ prev.call.op = "unbatched"
    /\ call.mode = prev.call.mode
    /\ RequestPath(call.mode) \notin DOMAIN prev.cache0
    /\ prev.call.api_key
    /\ prev.ret.outcome = "return" )
  => /\ ret.outcome = "return"
     /\ ServiceCalls(prev.log) + ServiceCalls(log) = 1
     /\ ret.value = prev.ret.value

C1_Witness ==
  /\ Returned("unbatched") /\ prev.call.op = "unbatched"
  /\ call.mode = prev.call.mode
  /\ RequestPath(call.mode) \notin DOMAIN prev.cache0
  /\ prev.ret.outcome = "return"
  /\ n = MaxLen /\ m = MaxLen
  /\ ServiceCalls(prev.log) = 1 /\ ServiceCalls(log) = 0
  /\ ret.value = prev.ret.value

\* C2. Triangular coverage: the (i, j) pairs of the sub-requests of one
\* get_distance_matrix_batched call lie in the grid, none has j <= i, none is
\* requested twice, and when the call returns they are exactly the pairs
\* with 0 <= i < n and i < j < m.
C2_TriangularCoverage ==
  /\ \A x \in DOMAIN plan :
       /\ plan[x].i \in 0..(n - 1)
       /\ \A y \in DOMAIN plan[x].js : plan[x].js[y] \in 0..(m - 1)
  /\ \A i_ \in 0..(n - 1), j \in 0..(m - 1) :
       /\ PairCount(plan, i_, j) <= (IF i_ < j THEN 1 ELSE 0)
       /\ Returned("batched") => PairCount(plan, i_, j) = (IF i_ < j THEN 1 ELSE 0)

C2_Witness ==
  /\ Returned("batched")
  /\ n = MaxLen /\ m = MaxLen /\ batch_size = 1
  /\ Len(plan) = (MaxLen * (MaxLen - 1)) \div 2
  /\ PairCount(plan, 0, MaxLen - 1) = 1
  /\ PairCount(plan, MaxLen - 1, 0) = 0

\* C3. Batch size bound: every sub-request of get_distance_matrix_batched has
\* exactly one origin and between 1 and batch_size destinations, and when the
\* call returns the destination indices of origin i's sub-requests, joined in
\* the order issued, are i+1, i+2, ..., m-1.
C3_BatchSizeBound ==
  /\ \A x \in DOMAIN plan :
       /\ Len(plan[x].js) \in 1..batch_size
       /\ plan[x].events # <<>>
       /\ \A e \in DOMAIN plan[x].events :
            /\ plan[x].events[e].origins = <<origins[plan[x].i + 1]>>
            /\ Len(plan[x].events[e].destinations) = Len(plan[x].js)
  /\ Returned("batched") =>
       \A i_ \in 0..(n - 1) : ConcatJs(plan, i_, 1) = Ascending(i_ + 1, m - 1)

C3_Witness ==
  /\ Returned("batched")
  /\ n = MaxLen /\ m = MaxLen /\ batch_size = 2
  /\ \E x \in DOMAIN plan : Len(plan[x].js) = 2
  /\ \E x \in DOMAIN plan : Len(plan[x].js) = 1
  /\ ConcatJs(plan, 0, 1) = Ascending(1, MaxLen - 1)

\* C4, as claimed. Origin-key presence: in the matrix returned by
\* get_distance_matrix or by get_distance_matrix_batched every origin of the
\* request is a top-level key, an origin without eligible destination too.
C4_OriginKeyPresence ==
  (Returned("unbatched") \/ Returned("batched")) => Range(origins) \subseteq DOMAIN ret.value

\* The origins that have an eligible destination: those at an index i < m - 1.
EligibleOrigins == {origins[x] : x \in {x \in DOMAIN origins : x < m}}

\* C4, amended. The matrix returned by get_distance_matrix has exactly the
\* origins of the request as its top-level keys, each with the destinations of
\* the request as inner keys (none when there is no destination).  The matrix
\* returned by get_distance_matrix_batched has as top-level keys exactly the
\* origins that occur at an index i < m - 1, each with a non-empty inner
\* mapping; an origin that occurs only at indices >= m - 1, such as the last
\* origin, is not a key.
C4_OriginKeysAmended ==
  /\ Returned("unbatched") =>
       /\ DOMAIN ret.value = Range(origins)
       /\ \A o \in DOMAIN ret.value : DOMAIN ret.value[o] = Range(destinations)
  /\ Returned("batched") =>
       /\ DOMAIN ret.value = EligibleOrigins
       /\ \A o \in DOMAIN ret.value : DOMAIN ret.value[o] # {}

C4_Witness ==
  /\ Returned("batched")
  /\ n = MaxLen /\ m = MaxLen
  /\ origins[1] \in DOMAIN ret.value
  /\ origins[n] \notin DOMAIN ret.value

\* No location occurs twice in s.
Distinct(s) == \A x, y \in DOMAIN s : x # y => s[x] # s[y]

\* What get_distance_matrix returns for the full lists when the service answers.
UnbatchedMatrix(mode) ==
  get_distance_matrix(fault, EmptyDict, TRUE, TRUE, origins, destinations, mode).value

\* C5. Assembly correctness: with no location twice in origins and none twice
\* in destinations, the matrix returned by get_distance_matrix_batched holds at
\* (origins[i], destinations[j]), for i < j, the element the unbatched
\* get_distance_matrix returns for the full lists, and no entry for another pair.
C5_AssemblyCorrectness ==
  (Returned("batched") /\ Distinct(origins) /\ Distinct(destinations)) =>
    /\ \A i_ \in 0..(n - 1), j \in 0..(m - 1) :
         LET o == origins[i_ + 1]
             d == destinations[j + 1]
             present == o \in DOMAIN ret.value /\ d \in DOMAIN ret.value[o]
         IN  IF i_ < j
               THEN present /\ ret.value[o][d] = UnbatchedMatrix(call.mode)[o][d]
               ELSE ~present
    /\ \A o \in DOMAIN ret.value :
         /\ o \in Range(origins)
         /\ DOMAIN ret.value[o] \subseteq Range(destinations)

C5_Witness ==
  /\ Returned("batched") /\ Distinct(origins) /\ Distinct(destinations)
  /\ n = MaxLen /\ m = MaxLen /\ batch_size = 1
  /\ fault.status # "OK"
  /\ \E o \in DOMAIN ret.value : \E d \in DOMAIN ret.value[o] :
       ret.value[o][d] = [error |-> fault.status]
  /\ DOMAIN ret.value[origins[1]] = {destinations[y] : y \in 2..m}

\* The element the service's answer stands for at the pair (o, d).
ExpectedElement(o, d, mode) ==
  IF fault.status # "OK" /\ fault.o = o /\ fault.d = d
    THEN [error |-> fault.status]
    ELSE [distance |-> <<"km", o, d, mode>>, duration |-> <<"mins", o, d, mode>>]

\* C6. Error isolation: when the service answers, with a status other than OK
\* for some pair, the unbatched call (google_maps_funcs and compute_distances)
\* raises nothing and returns a matrix that holds {error: <that status>} at
\* each such pair and {distance, duration} of the pair at every other.
C6_ErrorIsolation ==
  /\ (Ended /\ call.op = "unbatched" /\ call.api_key /\ ret.outcome # "ServiceCallError") =>
       /\ ret.outcome = "return"
       /\ \A x \in DOMAIN origins, y \in DOMAIN destinations :
            ret.value[origins[x]][destinations[y]]
              = ExpectedElement(origins[x], destinations[y], call.mode)
  /\ (Ended /\ call.op = "compute" /\ call.api_key /\ ret.outcome # "ServiceCallError") =>
       /\ ret.outcome = "return"
       /\ \A x \in DOMAIN origins, y \in DOMAIN destinations :
            ret.value[ResolvedAddress(origins[x])][ResolvedAddress(destinations[y])]
              = ExpectedElement(origins[x], destinations[y], call.mode)

C6_Witness ==
  /\ Returned("unbatched")
  /\ n = MaxLen /\ m = MaxLen
  /\ fault.status = "NOT_FOUND"
  /\ ret.value[fault.o][fault.d] = [error |-> "NOT_FOUND"]
  /\ \E o \in DOMAIN ret.value : \E d \in DOMAIN ret.value[o] :
       DOMAIN ret.value[o][d] = {"distance", "duration"}

\* The sub-request p of the batched call: its lists, cache path and answer.
SubOrigins(p) == <<origins[p.i + 1]>>
SubDestinations(p) == [y \in DOMAIN p.js |-> destinations[p.js[y] + 1]]
SubPath(p, mode) == matrix_cache_path(SubOrigins(p), SubDestinations(p), mode)
SubResponse(p, mode) == distance_matrix(fault, SubOrigins(p), SubDestinations(p), mode)

Evs(events) == [x \in DOMAIN events |-> events[x].ev]
HasEv(events, ev) == \E x \in DOMAIN events : events[x].ev = ev

\* The events of the sub-requests p[x..], joined.
RECURSIVE ConcatEvents(_, _)
ConcatEvents(p, x) ==
  IF x > Len(p) THEN <<>> ELSE p[x].events \o ConcatEvents(p, x + 1)

\* C7, as claimed. No network call without a credential: a service call is
\* issued only with the credential present, and a call made without it ends
\* with ValueError before any network attempt.
C7_NoNetworkWithoutCredential ==
  /\ ServiceCalls(log) > 0 => call.api_key
  /\ (Ended /\ ~call.api_key) => (ret.outcome = "ValueError" /\ ServiceCalls(log) = 0)

\* C7, amended. A service call (distance_matrix or geocode) is issued only
\* with the credential present.  Without it no call makes a network attempt
\* or writes the cache; compute_distances.get_distance_matrix and
\* get_coordinates end with ValueError; google_maps_funcs.get_distance_matrix
\* ends with ValueError when the request has no cache entry and returns when
\* it has one; get_distance_matrix_batched ends with ValueError at its first
\* sub-request without a cache entry and returns when every sub-request has
\* one or there is no sub-request.
C7_NoNetworkWithoutCredentialAmended ==
  /\ ServiceCalls(log) > 0 => call.api_key
  /\ (Ended /\ ~call.api_key) =>
       /\ ServiceCalls(log) = 0
       /\ cache = cache0
       /\ call.op \in {"compute", "coordinates"} => ret.outcome = "ValueError"
       /\ call.op = "unbatched" =>
            ret.outcome = (IF RequestPath(call.mode) \in DOMAIN cache0
                             THEN "return" ELSE "ValueError")
       /\ call.op = "batched" =>
            /\ \A x \in DOMAIN plan : ~plan[x].cached => x = Len(plan)
            /\ ret.outcome = (IF \A x \in DOMAIN plan : plan[x].cached
                                THEN "return" ELSE "ValueError")

C7_Witness ==
  /\ Ended /\ ~call.api_key
  /\ call.op = "batched" /\ ret.outcome = "ValueError"
  /\ Len(plan) = 2
  /\ plan[1].cached /\ ~plan[2].cached
  /\ cache = cache0

\* The service call of sub-request p was made and raised.
CallFailed(p) == p.events # <<>> /\ p.events[Len(p.events)].ev = "distance_matrix"

\* cache0 and the answers of the sub-requests p[x..y] that had no cache entry.
RECURSIVE CacheWith(_, _, _, _, _)
CacheWith(c, p, x, y, mode) ==
  IF x > y THEN c
  ELSE CacheWith(IF p[x].cached THEN c
                 ELSE (SubPath(p[x], mode) :> [json |-> SubResponse(p[x], mode)]) @@ c,
                 p, x + 1, y, mode)

\* C8. Abort on sub-request failure: when the service call of a sub-request of
\* get_distance_matrix_batched raises, the batched call ends at once with that
\* error: the failing sub-request is the last one issued and its service call
\* the last I/O, no matrix is returned, and the cache is the cache before the
\* call plus the entries of the earlier sub-requests that had none; the
\* failing sub-request has no entry.
C8_AbortOnFailure ==
  \A x \in DOMAIN plan :
    CallFailed(plan[x]) =>
      /\ x = Len(plan)
      /\ pc = "idle"
      /\ ret = [outcome |-> "ServiceCallError", value |-> EmptyDict]
      /\ log = ConcatEvents(plan, 1)
      /\ \A y \in 1..(x - 1) :
           plan[y].events[Len(plan[y].events)].ev \in {"read", "write"}
      /\ cache = CacheWith(cache0, plan, 1, x - 1, call.mode)
      /\ SubPath(plan[x], call.mode) \notin DOMAIN cache

C8_Witness ==
  /\ Ended /\ call.op = "batched" /\ ret.outcome = "ServiceCallError"
  /\ Len(plan) = 2
  /\ CallFailed(plan[2])
  /\ ~plan[1].cached
  /\ cache # cache0
  /\ SubPath(plan[1], call.mode) \in DOMAIN cache
  /\ SubPath(plan[2], call.mode) \notin DOMAIN cache

\* C9. Per-sub-request caching: with the credential present, a sub-request of
\* get_distance_matrix_batched gets a service call exactly if it has no cache
\* entry when it is reached, and an answered call leaves the answer as its
\* entry.  A second batched call with the same arguments after one that
\* returned issues no service call and returns an equal matrix; a re-run
\* after an aborted call issues service calls only from the sub-request that
\* failed on.
C9_PerSubRequestCaching ==
  /\ \A x \in DOMAIN plan :
       /\ HasEv(plan[x].events, "distance_matrix") <=> (~plan[x].cached /\ call.api_key)
       /\ HasEv(plan[x].events, "write") <=>
            (HasEv(plan[x].events, "distance_matrix") /\ ~CallFailed(plan[x]))
       /\ HasEv(plan[x].events, "write") =>
            /\ SubPath(plan[x], call.mode) \in DOMAIN cache
            /\ cache[SubPath(plan[x], call.mode)] = [json |-> SubResponse(plan[x], call.mode)]
  /\ (call.op = "batched" /\ prev.call.op = "batched" /\ call.mode = prev.call.mode) =>
       /\ (Ended /\ prev.ret.outcome = "return") =>
            /\ ret.outcome = "return"
            /\ ServiceCalls(log) = 0
            /\ ret.value = prev.ret.value
       /\ prev.ret.outcome \in {"ServiceCallError", "ValueError"} =>
            \A x \in DOMAIN plan :
              HasEv(plan[x].events, "distance_matrix") => x >= Len(prev.plan)

C9_Witness ==
  /\ Returned("batched") /\ prev.call.op = "batched" /\ call.mode = prev.call.mode
  /\ prev.ret.outcome = "ServiceCallError"
  /\ Len(prev.plan) = 2 /\ Len(plan) = 3
  /\ plan[1].cached /\ ~plan[2].cached /\ ~plan[3].cached
  /\ ServiceCalls(log) = 2

\* C10, as claimed. Configuration error before any I/O: without the credential
\* the unbatched get_distance_matrix ends with ValueError before the cache is
\* looked up or read and before any service call, whatever the cache holds.
C10_ConfigErrorBeforeIO ==
  (Ended /\ call.op = "unbatched" /\ ~call.api_key) =>
    /\ ret.outcome = "ValueError"
    /\ \A x \in DOMAIN log : log[x].ev \notin {"exists", "read", "write", "distance_matrix"}

\* C10, amended. Without the credential the unbatched get_distance_matrix
\* first looks the request up in the cache.  With no entry it ends with
\* ValueError, before any service call and with the cache as it was; with an
\* entry it reads it and returns its matrix, and raises nothing.
C10_ConfigErrorAfterLookup ==
  (Ended /\ call.op = "unbatched" /\ ~call.api_key) =>
    /\ cache = cache0
    /\ IF RequestPath(call.mode) \in DOMAIN cache0
         THEN /\ Evs(log) = <<"exists", "read">>
              /\ ret = [outcome |-> "return", value |-> UnbatchedMatrix(call.mode)]
         ELSE /\ Evs(log) = <<"exists", "getenv">>
              /\ ret = [outcome |-> "ValueError", value |-> EmptyDict]

C10_Witness ==
  /\ Ended /\ call.op = "unbatched" /\ ~call.api_key
  /\ RequestPath(call.mode) \in DOMAIN cache0
  /\ n = MaxLen /\ m = MaxLen
  /\ ret.outcome = "return"
  /\ Evs(log) = <<"exists", "read">>

\* The matrix element the transform makes of one element of a stored response.
StoredElement(element) ==
  IF element.status = "OK"
    THEN [distance |-> element.distance.text, duration |-> element.duration.text]
    ELSE [error |-> element.status]

\* C11, as claimed. Stored entry equals returned matrix: after an unbatched
\* get_distance_matrix call that returned, on a miss or on a hit, the entry
\* persisted under the request's fingerprint is the matrix the call returned.
C11_StoredEntryEqualsReturned ==
  Returned("unbatched") =>
    /\ RequestPath(call.mode) \in DOMAIN cache
    /\ JsonLoad(cache[RequestPath(call.mode)]) = ret.value

\* C11, amended. The entry persisted on a miss is the service's response, as
\* received, not the matrix; the matrix returned, on the miss and on every
\* later hit, is the transform of the persisted response: it holds at
\* (origins[x], destinations[y]) the texts or the status of the response's
\* element in row x, column y.  A hit leaves the entry as it was and only
\* reads it; a miss adds this one entry.
C11_StoredResponseTransformedOnRead ==
  Returned("unbatched") =>
    LET path == RequestPath(call.mode)
    IN  /\ path \in DOMAIN cache
        /\ cache[path] =
             [json |-> distance_matrix(fault, origins, destinations, call.mode)]
        /\ DOMAIN ret.value = Range(origins)
        /\ \A x \in DOMAIN origins :
             /\ DOMAIN ret.value[origins[x]] = Range(destinations)
             /\ \A y \in DOMAIN destinations :
                  ret.value[origins[x]][destinations[y]] =
                    StoredElement(JsonLoad(cache[path]).rows[x].elements[y])
        /\ IF path \in DOMAIN cache0
             THEN cache = cache0 /\ Evs(log) = <<"exists", "read">>
             ELSE /\ DOMAIN cache = DOMAIN cache0 \cup {path}
                  /\ \A q \in DOMAIN cache0 : cache[q] = cache0[q]
                  /\ Evs(log) = <<"exists", "getenv", "distance_matrix", "write">>

C11_Witness ==
  /\ Returned("unbatched")
  /\ RequestPath(call.mode) \in DOMAIN cache0
  /\ n = MaxLen /\ m = MaxLen
  /\ fault.status # "OK"
  /\ JsonLoad(cache[RequestPath(call.mode)]) # ret.value
  /\ ret.value["A"]["B"] = [error |-> fault.status]
  /\ JsonLoad(cache[RequestPath(call.mode)]).rows[1].elements[2] = [status |-> fault.status]

\* The returned matrix holds an entry under (o, d).
HasEntry(matrix, o, d) == o \in DOMAIN matrix /\ d \in DOMAIN matrix[o]

\* C12, as claimed. Lower triangle absent: in the matrix returned by
\* get_distance_matrix_batched, for every origin index i_ and destination index
\* j <= i_, the inner mapping of origins[i_] has no entry under
\* destinations[j], whatever the lists, repeated locations included.
C12_LowerTriangleAbsent ==
  Returned("batched") =>
    \A i_ \in 0..(n - 1), j \in 0..(m - 1) :
      j <= i_ => ~HasEntry(ret.value, origins[i_ + 1], destinations[j + 1])

\* C12, amended. The returned matrix is keyed by the location strings: it
\* holds an entry under (o, d) exactly when o = origins[i_] and
\* d = destinations[j] for some i_ < j.  So for j <= i_ the entry under
\* (origins[i_], destinations[j]) is absent unless the same two strings also
\* occur at some index pair with the origin index below the destination
\* index; with no location twice in origins and none twice in destinations
\* the whole lower triangle, the diagonal included, is absent.
C12_LowerTriangleAbsentUnlessRepeated ==
  Returned("batched") =>
    /\ \A i_ \in 0..(n - 1), j \in 0..(m - 1) :
         HasEntry(ret.value, origins[i_ + 1], destinations[j + 1]) <=>
           \E x \in 0..(n - 1), y \in 0..(m - 1) :
             x < y /\ origins[x + 1] = origins[i_ + 1]
                   /\ destinations[y + 1] = destinations[j + 1]
    /\ (Distinct(origins) /\ Distinct(destinations)) =>
         \A i_ \in 0..(n - 1), j \in 0..(m - 1) :
           j <= i_ => ~HasEntry(ret.value, origins[i_ + 1], destinations[j + 1])

C12_Witness ==
  /\ Returned("batched")
  /\ origins = <<"A", "B", "C">> /\ destinations = <<"A", "B", "C">>
  /\ HasEntry(ret.value, "A", "B") /\ HasEntry(ret.value, "B", "C")
  /\ ~HasEntry(ret.value, "A", "A") /\ ~HasEntry(ret.value, "B", "A")
  /\ ~HasEntry(ret.value, "B", "B") /\ "C" \notin DOMAIN ret.value

\* The orders of I/O one sub-request can perform: a hit; a miss without the
\* credential; a miss whose service call raises; a miss answered and written.
CompleteRuns ==
  {<<"exists", "read">>, <<"exists", "getenv", "distance_matrix", "write">>}
AbortedRuns == {<<"exists", "getenv">>, <<"exists", "getenv", "distance_matrix">>}

\* C13. Sequential ordered dispatch: the sub-requests of one
\* get_distance_matrix_batched call are issued one at a time, in the order of
\* increasing origin index and, within an origin, increasing chunk start.  The
\* I/O of the call is the I/O of its sub-requests, one after the other, each
\* for its own request: lookup, then read, or credential, service call and
\* write; only the last one issued can have ended early.  While the call runs,
\* every sub-request issued so far has its entry in the cache and its pairs
\* folded into the result.  For origins = destinations = [A, B, C] and batch
\* size 1 the sub-requests are (0, [1]), (0, [2]), (1, [2]), in that order.
C13_SequentialOrderedDispatch ==
  call.op = "batched" =>
    /\ \A x, y \in DOMAIN plan :
         x < y => \/ plan[x].i < plan[y].i
                  \/ plan[x].i = plan[y].i /\ plan[x].js[1] < plan[y].js[1]
    /\ log = ConcatEvents(plan, 1)
    /\ \A x \in DOMAIN plan :
         /\ \A e \in DOMAIN plan[x].events :
              /\ plan[x].events[e].origins = SubOrigins(plan[x])
              /\ plan[x].events[e].destinations = SubDestinations(plan[x])
              /\ plan[x].events[e].mode = call.mode
         /\ Evs(plan[x].events) \in CompleteRuns \cup AbortedRuns
         /\ Evs(plan[x].events) \in AbortedRuns => (x = Len(plan) /\ pc = "idle")
    /\ pc # "idle" =>
         \A x \in DOMAIN plan :
           /\ SubPath(plan[x], call.mode) \in DOMAIN cache
           /\ \A y \in DOMAIN plan[x].js :
                HasEntry(result, origins[plan[x].i + 1], destinations[plan[x].js[y] + 1])
    /\ ( /\ Returned("batched")
         /\ origins = <<"A", "B", "C">> /\ destinations = <<"A", "B", "C">>
         /\ batch_size = 1 )
       => [x \in DOMAIN plan |-> <<plan[x].i, plan[x].js>>]
            = << <<0, <<1>>>>, <<0, <<2>>>>, <<1, <<2>>>> >>

C13_Witness ==
  /\ Returned("batched")
  /\ origins = <<"A", "B", "C">> /\ destinations = <<"A", "B", "C">>
  /\ batch_size = 1
  /\ Len(plan) = 3 /\ plan[3].i = 1 /\ plan[3].js = <<2>>
  /\ Len(log) = 12
  /\ Evs(SubSeq(log, 5, 8)) = <<"exists", "getenv", "distance_matrix", "write">>
  /\ log[5].destinations = <<"C">>

\* The cache path of the request an I/O event belongs to.
EventPath(e) == matrix_cache_path(e.origins, e.destinations, e.mode)

\* C14. Write-once, never-evicted cache: in every step of every sequence of
\* get_distance_matrix and get_distance_matrix_batched calls (and of the other
\* operations), each entry of the cache stays, with its content; the entries
\* added are those of the step's writes; a write goes to a path that had no
\* entry, is the last of lookup, credential, service call and write of one
\* request, and stores the service's response for that request.
C14_WriteOnceNeverEvicted ==
  [][LET ev == IF calls_left' # calls_left
                 THEN log' ELSE SubSeq(log', Len(log) + 1, Len(log'))
         writes == {x \in DOMAIN ev : ev[x].ev = "write"}
     IN  /\ \A p \in DOMAIN cache : p \in DOMAIN cache' /\ cache'[p] = cache[p]
         /\ DOMAIN cache' = DOMAIN cache \cup {EventPath(ev[x]) : x \in writes}
         /\ \A x \in writes :
              /\ EventPath(ev[x]) \notin DOMAIN cache
              /\ x >= 4
              /\ Evs(SubSeq(ev, x - 3, x)) = <<"exists", "getenv", "distance_matrix", "write">>
              /\ \A y \in (x - 3)..x : EventPath(ev[y]) = EventPath(ev[x])
              /\ cache'[EventPath(ev[x])] =
                   [json |-> distance_matrix(fault, ev[x].origins, ev[x].destinations,
                                             ev[x].mode)]
    ]_vars

C14_Witness ==
  /\ Returned("batched") /\ prev.call.op = "batched"
  /\ prev.ret.outcome = "ServiceCallError"
  /\ cache0 # EmptyDict
  /\ Len(plan) >= 2 /\ plan[1].cached /\ ~plan[2].cached
  /\ Cardinality(DOMAIN cache) >= Cardinality(DOMAIN cache0) + 2
  /\ \A p \in DOMAIN cache0 : p \in DOMAIN cache /\ cache[p] = cache0[p]

Reverse(s) == [x \in DOMAIN s |-> s[Len(s) + 1 - x]]

\* The requests of the cache lookups among the events l.
LookupsOf(l) ==
  {[origins |-> l[x].origins, destinations |-> l[x].destinations, mode |-> l[x].mode] :
     x \in {x \in DOMAIN l : l[x].ev = "exists"}}

\* Requests that differ from request r in the mode, in the order of a list,
\* in an element, or in which list is which (or, for short lists, not at all).
Variants(r) ==
  {[origins |-> o, destinations |-> d, mode |-> md] :
     o \in {r.origins, Reverse(r.origins), r.destinations,
            SubSeq(r.origins, 1, Len(r.origins) - 1)},
     d \in {r.destinations, Reverse(r.destinations), r.origins,
            SubSeq(r.destinations, 1, Len(r.destinations) - 1)},
     md \in Modes}

\* C15. Cache key exactness: two requests have the same cache path exactly when
\* their origins lists, their destinations lists and their modes are equal,
\* element by element and in order (compared, when no call is in flight, for
\* the requests the last two calls made and their variants); and every cache
\* hit reads the response the service gave for the very (origins,
\* destinations, mode) of the request.
C15_CacheKeyExactness ==
  LET full == [origins |-> origins, destinations |-> destinations, mode |-> call.mode]
      made == LookupsOf(log) \cup LookupsOf(prev.log)
  IN  /\ pc = "idle" =>
           \A r \in made \cup {full} : \A v \in Variants(r) \cup made :
             EventPath(r) = EventPath(v) <=> r = v
      /\ \A x \in DOMAIN log :
           log[x].ev = "read" =>
             cache[EventPath(log[x])] =
               [json |-> distance_matrix(fault, log[x].origins, log[x].destinations,
                                         log[x].mode)]
      /\ (Returned("unbatched") /\ HasEv(log, "read")) =>
           \A x \in DOMAIN origins, y \in DOMAIN destinations :
             ret.value[origins[x]][destinations[y]] =
               ExpectedElement(origins[x], destinations[y], call.mode)

C15_Witness ==
  /\ Returned("unbatched") /\ prev.call.op = "unbatched"
  /\ prev.ret.outcome = "return"
  /\ call.mode = "walking" /\ prev.call.mode = "driving"
  /\ n = MaxLen /\ m = MaxLen
  /\ RequestPath("walking") # RequestPath("driving")
  /\ DOMAIN cache = {RequestPath("walking"), RequestPath("driving")}
  /\ ServiceCalls(log) = 1 /\ ServiceCalls(prev.log) = 1
  /\ ret.value["A"]["C"].distance = <<"km", "A", "C", "walking">>

\* ceil(max(0, m - 1 - i_) / batch_size)
ExpectedSubRequests(i_) ==
  ((IF m - 1 - i_ > 0 THEN m - 1 - i_ ELSE 0) + batch_size - 1) \div batch_size

SubRequestsOf(i_) == Cardinality({x \in DOMAIN plan : plan[x].i = i_})

\* C16. Sub-request count and termination: a get_distance_matrix_batched call
\* on an empty cache ends; it never issues more than
\* ceil(max(0, m - 1 - i_) / batch_size) sub-requests for origin i_ (none for
\* i_ >= m - 1) nor one for an index that is no origin's; it returns unless a
\* sub-request fails for want of the credential or of the service's answer;
\* and when it returns it has issued exactly that many for each origin.
C16_SubRequestCountAndTermination ==
  /\ [](call.op = "batched" =>
          /\ \A x \in DOMAIN plan : plan[x].i \in 0..(n - 1)
          /\ \A i_ \in 0..(n - 1) : SubRequestsOf(i_) <= ExpectedSubRequests(i_)
          /\ \A i_ \in 0..(n - 1) : i_ >= m - 1 => SubRequestsOf(i_) = 0)
  /\ [](Returned("batched") =>
          \A i_ \in 0..(n - 1) : SubRequestsOf(i_) = ExpectedSubRequests(i_))
  /\ []((Ended /\ call.op = "batched" /\ ret.outcome # "return") =>
          (~call.api_key \/ CallFailed(plan[Len(plan)])))
  /\ (call.op = "batched" /\ pc # "idle") ~> Ended

C16_Witness ==
  /\ Returned("batched")
  /\ n = MaxLen /\ m = MaxLen /\ batch_size = MaxBatch
  /\ SubRequestsOf(0) = ExpectedSubRequests(0)
  /\ ExpectedSubRequests(0) = (MaxLen + MaxBatch - 2) \div MaxBatch
  /\ SubRequestsOf(n - 1) = 0
  /\ Len(plan) >= 2

\* C17, as claimed. Missing credential scenario: without the credential and
\* on an empty cache, every get_distance_matrix_batched call ends with
\* ValueError before any sub-request is processed: no lookup, no service call,
\* no cache write, no matrix returned.
C17_BatchedValueErrorBeforeAnyDescriptor ==
  (Ended /\ call.op = "batched" /\ ~call.api_key /\ cache0 = EmptyDict) =>
    /\ ret.outcome = "ValueError"
    /\ plan = <<>> /\ log = <<>>
    /\ cache = EmptyDict

\* C17, amended. Without the credential and on an empty cache, a
\* get_distance_matrix_batched call that has a sub-request (n >= 1, m >= 2)
\* ends with ValueError in its first sub-request, (0, first chunk), after
\* that sub-request's cache lookup: no service call, no cache write, no
\* matrix.  A call without sub-requests (n = 0 or m <= 1) never reads the
\* credential and returns the empty matrix.
C17_BatchedValueErrorAtFirstDescriptor ==
  (Ended /\ call.op = "batched" /\ ~call.api_key /\ cache0 = EmptyDict) =>
    /\ cache = EmptyDict
    /\ ServiceCalls(log) = 0
    /\ ~HasEv(log, "write")
    /\ IF n >= 1 /\ m >= 2
         THEN /\ ret = [outcome |-> "ValueError", value |-> EmptyDict]
              /\ Len(plan) = 1
              /\ plan[1].i = 0
              /\ plan[1].js = Ascending(1, Min(batch_size, m - 1))
              /\ Evs(log) = <<"exists", "getenv">>
         ELSE /\ ret = [outcome |-> "return", value |-> EmptyDict]
              /\ plan = <<>> /\ log = <<>>

C17_Witness ==
  /\ Ended /\ call.op = "batched" /\ ~call.api_key /\ cache0 = EmptyDict
  /\ n = MaxLen /\ m = MaxLen
  /\ ret.outcome = "ValueError"
  /\ Len(plan) = 1 /\ plan[1].i = 0
  /\ Evs(log) = <<"exists", "getenv">>
  /\ cache = EmptyDict

\* An unbatched get_distance_matrix call is made in this step, on a cache that
\* holds a corrupted entry for its request.
UnbatchedOnCorruptEntry ==
  /\ calls_left' # calls_left
  /\ call'.op = "unbatched"
  /\ RequestPath(call'.mode) \in DOMAIN cache
  /\ cache[RequestPath(call'.mode)] \in CorruptFiles

Partials ==
  {Transform(<<o>>, ds, distance_matrix(fault, <<o>>, ds, md)) :
     o \in Range(origins),
     ds \in ({<<d>> : d \in Range(destinations)} \cup {destinations}) \ {<<>>},
     md \in Modes}

\* The origin of a partial result.
OriginOf(partial) == CHOOSE o \in DOMAIN partial : TRUE

\* C19. Fold algebra, on every accumulator a get_distance_matrix_batched call
\* goes through: folding two partial results of different origins gives the
\* same accumulator in either order; folding a partial result twice gives what
\* folding it once gives; and a fold for one origin leaves the inner mappings
\* of the other origins as they were, adds no origin but its own, and in its
\* origin's inner mapping sets the destinations of the partial result to the
\* partial result's elements and leaves every other destination as it was.
C19_FoldAlgebra ==
  (call.op = "batched" /\ pc = "for_i") =>
    /\ \A p1, p2 \in Partials :
         OriginOf(p1) # OriginOf(p2) =>
           Fold(Fold(result, p1), p2) = Fold(Fold(result, p2), p1)
    /\ \A p \in Partials :
         LET r == Fold(result, p)
             o == OriginOf(p)
             old == IF o \in DOMAIN result THEN result[o] ELSE EmptyDict
         IN  /\ Fold(r, p) = r
             /\ DOMAIN r = DOMAIN result \cup {o}
             /\ \A o2 \in DOMAIN result \ {o} : r[o2] = result[o2]
             /\ DOMAIN r[o] = DOMAIN old \cup DOMAIN p[o]
             /\ \A d \in DOMAIN r[o] :
                  r[o][d] = IF d \in DOMAIN p[o] THEN p[o][d] ELSE old[d]

C19_Witness ==
  /\ call.op = "batched" /\ pc = "for_i" /\ call.mode = "driving"
  /\ origins = <<"A", "B", "C">> /\ destinations = <<"A", "B", "C">>
  /\ DOMAIN result = {"A", "B"}
  /\ \E p \in Partials :
       /\ OriginOf(p) = "A" /\ DOMAIN p["A"] = {"B"}
       /\ p["A"]["B"] # result["A"]["B"]
       /\ Fold(result, p)["A"]["B"] = p["A"]["B"]
       /\ Fold(result, p)["A"]["C"] = result["A"]["C"]
       /\ Fold(result, p)["B"] = result["B"]
====
